---- MODULE Spec2Model ----
(***************************************************************************)
(* Dodger (src/1.py): the simulation loop of Game.run, the entities it     *)
(* owns (Player, Enemy, PowerUp), collision resolution, score accrual and  *)
(* the best-score record.                                                  *)
(*                                                                         *)
(* Units.  Time is in milliseconds: pygame's Clock.tick returns whole      *)
(* milliseconds and the code divides by 1000.0, so dt is carried as the    *)
(* integer number of milliseconds and every duration constant of the code  *)
(* (seconds) is written in milliseconds.  time.perf_counter() is read on   *)
(* the same millisecond grid.  Speeds are pixels per second, positions are *)
(* pixels (pygame.Rect holds integers).  The score is carried in           *)
(* hundredths of a point: elapsed*10 + bonus, with elapsed in ms, is       *)
(* (elapsed_ms + 100*bonus)/100 exactly.                                   *)
(***************************************************************************)
EXTENDS Integers, Sequences, FiniteSets, TLC

\* ------------------------------------------------------------------ config
WIDTH == 960
HEIGHT == 540
PLAYER_SIZE == 36
ENEMY_SIZE == 28
POWERUP_SIZE == 22
PLAYER_SPEED == 330
DASH_SPEED == 820
DASH_TIME == 180
DASH_COOLDOWN == 1200
INVINCIBLE_AFTER_HIT == 800
SPAWN_BASE_INTERVAL == 900
SPAWN_MIN_INTERVAL == 180
SPAWN_ACCEL_TIME == 60000
ENEMY_SPEED_BASE == 180
ENEMY_SPEED_MAX == 560
POWERUP_INTERVAL == <<6000, 11000>>

\* milliseconds per second: dt = clock.tick(FPS) / 1000.0
MsPerSec == 1000
\* hundredths of a point per point (the unit of the variable score)
ScoreUnit == 100

S_MENU == 0
S_PLAY == 1
S_PAUSE == 2
S_GAMEOVER == 3

\* Python's None for game_over_time, and for the call logs below
None == -1

\* ------------------------------------------------------------------ bounds
\* the number of iterations of the loop of Game.run that are explored
MaxFrames == 4
\* the number of steps of a sequence of calls on one Player (SpecPlayer)
MaxCalls == 5
\* the number of calls of Player.update on one Player (SpecMove)
MaxMoves == 3

\* ------------------------------------------------------------------ inputs
\* what Clock.tick may return: a 60 FPS frame, and a frame that was held up
DtSet == {17, 1000}

\* the keys of KEYDOWN events (K_x stands for every key the code ignores)
Keys == {"K_RETURN", "K_KP_ENTER", "K_ESCAPE", "K_q", "K_p", "K_SPACE", "K_r", "K_x"}

\* what pygame.key.get_pressed() may report during a tick
HeldChoices == { {}, {"K_UP", "K_SPACE"} }

\* random.randint(0, WIDTH - size) and random.randint(0, 200) of Enemy.__init__
EnemyXs == {462}
EnemyOffsets == {0}
\* random.uniform(-60, 60)
EnemyDrifts == {0}
\* enemy_speed * random.uniform(0.9, 1.15), when the range holds it
EnemySpeeds == {189}

\* PowerUp.__init__: randint(20, WIDTH-20-POWERUP_SIZE), randint(40, 200),
\* uniform(120, 200)
PowerupXs == {470}
PowerupOffsets == {200}
PowerupSpeeds == {120}
\* random.uniform(*POWERUP_INTERVAL)
PowerupDelays == {6000}

\* how a write of the best-score record may end
SaveOutcomes == {"ok", "open_failed", "write_failed"}

\* the best-score record found at startup
Absent == [kind |-> "absent", high_score |-> 0]
Unreadable == [kind |-> "unreadable", high_score |-> 0]
Stored(n) == [kind |-> "ok", high_score |-> n]
InitFiles == {Absent, Unreadable, Stored(15)}

\* ------------------------------------------------------------------ helpers
Max(a, b) == IF a >= b THEN a ELSE b
Min(a, b) == IF a <= b THEN a ELSE b

\* clamp that forgets the upper end
clamp_low_only(v, lo, hi) == Max(lo, v)

clamp(v, lo, hi) == Max(lo, Min(hi, v))

\* int(a / b) of Python for b > 0: truncation towards zero
TruncDiv(a, b) == IF a >= 0 THEN a \div b ELSE -((-a) \div b)

\* int(v * dt) for a speed v in px/s and dt = ms / 1000.0
Step(v, ms) == TruncDiv(v * ms, MsPerSec)

\* int((1 / math.hypot(1, 1)) * v * dt): the largest n with n * sqrt(2) <= v*dt.
\* With a = v*ms = 1000*q + r this is the largest n with
\* 1000 * (2*n*n - q*q) <= 2*q*r + r*r/1000, looked for around q * 0.7071.
DiagStep(v, ms) ==
    LET a == v * ms
        q == a \div MsPerSec
        r == a % MsPerSec
        guess == (q * 7071) \div 10000
        Fits(n) == MsPerSec * (2 * n * n - q * q) <= 2 * q * r + (r * r) \div MsPerSec
        cands == { n \in (Max(0, guess - 2))..(guess + 2) : Fits(n) }
    IN  CHOOSE n \in cands : \A m \in cands : m <= n

\* pygame.Rect.colliderect for two squares given by corner and size
colliderect(ax, ay, asz, bx, by, bsz) ==
    /\ ax < bx + bsz
    /\ bx < ax + asz
    /\ ay < by + bsz
    /\ by < ay + asz

\* list.remove(e): the list without its first element equal to e
RECURSIVE remove(_, _)
remove(s, e) ==
    IF s = <<>> THEN <<>>
    ELSE IF Head(s) = e THEN Tail(s)
    ELSE <<Head(s)>> \o remove(Tail(s), e)

\* ------------------------------------------------------------------ best-score record
load_high_score(f) == IF f.kind = "ok" THEN f.high_score ELSE 0

\* open(.., "w") truncates the record before json.dump writes it; an exception at
\* either step is swallowed
save_high_score(f, n, io) ==
    CASE io = "ok" -> Stored(n)
      [] io = "open_failed" -> f
      [] io = "write_failed" -> Unreadable

\* ------------------------------------------------------------------ Player
\* a Player on which start() was not called: the rect is where pygame.Rect(0, 0,
\* size, size) put it, the timers and the shield as __init__ left them
Player_not_started ==
    [x |-> 0, y |-> 0,
     invincible_until |-> 0, has_shield |-> FALSE,
     dash_until |-> 0, dash_cd_until |-> 0]

\* Player.__init__ followed by Player.start
Player_start ==
    [x |-> WIDTH \div 2 - PLAYER_SIZE \div 2,
     y |-> (HEIGHT - 16) - PLAYER_SIZE,
     invincible_until |-> 0,
     has_shield |-> FALSE,
     dash_until |-> 0,
     dash_cd_until |-> 0]

Axis(keys, neg, pos) ==
    (IF keys \cap pos # {} THEN 1 ELSE 0) - (IF keys \cap neg # {} THEN 1 ELSE 0)

Player_update(p, ms, keys, now) ==
    LET vx == Axis(keys, {"K_a", "K_LEFT"}, {"K_d", "K_RIGHT"})
        vy == Axis(keys, {"K_w", "K_UP"}, {"K_s", "K_DOWN"})
        spd == IF now < p.dash_until THEN DASH_SPEED ELSE PLAYER_SPEED
        mv(v, other) ==
            IF v = 0 THEN 0
            ELSE IF other = 0 THEN v * Step(spd, ms)
            ELSE v * DiagStep(spd, ms)
    IN  [p EXCEPT !.x = clamp(p.x + mv(vx, vy), 0, WIDTH - PLAYER_SIZE),
                  !.y = clamp(p.y + mv(vy, vx), 0, HEIGHT - PLAYER_SIZE)]

\* DASH_TIME * 0.9
DashInvincible == (DASH_TIME * 9) \div 10

\* Player.try_dash gated on the end of the dash instead of the end of the cooldown
Player_try_dash_gated_on_dash(p, now) ==
    IF now >= p.dash_until
    THEN [ok |-> TRUE,
          player |-> [p EXCEPT !.dash_until = now + DASH_TIME,
                               !.dash_cd_until = now + DASH_COOLDOWN,
                               !.invincible_until =
                                   Max(p.invincible_until, now + DashInvincible)]]
    ELSE [ok |-> FALSE, player |-> p]

Player_try_dash(p, now) ==
    IF now >= p.dash_cd_until
    THEN [ok |-> TRUE,
          player |-> [p EXCEPT !.dash_until = now + DASH_TIME,
                               !.dash_cd_until = now + DASH_COOLDOWN,
                               !.invincible_until =
                                   Max(p.invincible_until, now + DashInvincible)]]
    ELSE [ok |-> FALSE, player |-> p]

\* Player.hit with the shield looked at before the invincibility
Player_hit_shield_first(p, now) ==
    IF p.has_shield
    THEN [lethal |-> FALSE,
          player |-> [p EXCEPT !.has_shield = FALSE,
                               !.invincible_until = now + INVINCIBLE_AFTER_HIT]]
    ELSE IF now < p.invincible_until
    THEN [lethal |-> FALSE, player |-> p]
    ELSE [lethal |-> TRUE, player |-> p]

\* Player.hit without the invincibility granted when the shield is consumed
Player_hit_no_grace(p, now) ==
    IF now < p.invincible_until
    THEN [lethal |-> FALSE, player |-> p]
    ELSE IF p.has_shield
    THEN [lethal |-> FALSE, player |-> [p EXCEPT !.has_shield = FALSE]]
    ELSE [lethal |-> TRUE, player |-> p]

\* Player.hit that does not test invincible_until
Player_hit_no_invincibility(p, now) ==
    IF p.has_shield
    THEN [lethal |-> FALSE,
          player |-> [p EXCEPT !.has_shield = FALSE,
                               !.invincible_until = now + INVINCIBLE_AFTER_HIT]]
    ELSE [lethal |-> TRUE, player |-> p]

Player_hit(p, now) ==
    IF now < p.invincible_until
    THEN [lethal |-> FALSE, player |-> p]
    ELSE IF p.has_shield
    THEN [lethal |-> FALSE,
          player |-> [p EXCEPT !.has_shield = FALSE,
                               !.invincible_until = now + INVINCIBLE_AFTER_HIT]]
    ELSE [lethal |-> TRUE, player |-> p]

\* ------------------------------------------------------------------ Enemy, PowerUp
\* Enemy.__init__(speed) with the three random draws x, off, drift
Enemy_new(x, off, speed, drift) ==
    [x |-> x, y |-> -ENEMY_SIZE - off, speed |-> speed, drift |-> drift]

\* Enemy.update: the enemy after the move (its return value is Enemy_alive)
Enemy_update(e, ms) ==
    LET nx == e.x + Step(e.drift, ms)
    IN  [e EXCEPT !.y = e.y + Step(e.speed, ms),
                  !.x = nx,
                  !.drift = IF nx < 0 \/ nx + ENEMY_SIZE > WIDTH
                            THEN -e.drift ELSE e.drift]

\* Enemy.update that always returns True
Enemy_alive_never_culled(e) == TRUE

Enemy_alive(e) == e.y <= HEIGHT

PowerUp_new(x, off, speed) ==
    [kind |-> "shield", x |-> x, y |-> -POWERUP_SIZE - off, speed |-> speed]

PowerUp_update(p, ms) == [p EXCEPT !.y = p.y + Step(p.speed, ms)]

PowerUp_alive(p) == p.y <= HEIGHT

\* ------------------------------------------------------------------ difficulty
\* Game.difficulty without the clamp of k
difficulty_unclamped(t) ==
    [spawn |-> SPAWN_BASE_INTERVAL * (SPAWN_ACCEL_TIME - t) + SPAWN_MIN_INTERVAL * t,
     speed |-> ENEMY_SPEED_BASE * (SPAWN_ACCEL_TIME - t) + ENEMY_SPEED_MAX * t]

\* Game.difficulty(t), both results multiplied by SPAWN_ACCEL_TIME so that
\* k = clamp(t / SPAWN_ACCEL_TIME, 0, 1) stays an integer (k * SPAWN_ACCEL_TIME)
difficulty(t) ==
    LET k == clamp(t, 0, SPAWN_ACCEL_TIME)
    IN  [spawn |-> SPAWN_BASE_INTERVAL * (SPAWN_ACCEL_TIME - k) + SPAWN_MIN_INTERVAL * k,
         speed |-> ENEMY_SPEED_BASE * (SPAWN_ACCEL_TIME - k) + ENEMY_SPEED_MAX * k]

\* the test of the spawn made against SPAWN_MIN_INTERVAL
SpawnDue_min_interval(now, last, cur) == now - last >= SPAWN_MIN_INTERVAL

\* (now - last_spawn) >= spawn_interval, for whole milliseconds on the left
SpawnDue(now, last, cur) ==
    now - last >= (cur.spawn + SPAWN_ACCEL_TIME - 1) \div SPAWN_ACCEL_TIME

\* enemy_speed * random.uniform(0.9, 1.15): the speeds of EnemySpeeds in that
\* range or, when there is none, the least whole speed of the range
JitterSpeeds(cur) ==
    LET in_range == { v \in EnemySpeeds :
                        /\ 9 * cur.speed <= v * 10 * SPAWN_ACCEL_TIME
                        /\ v * 20 * SPAWN_ACCEL_TIME <= 23 * cur.speed }
    IN  IF in_range # {} THEN in_range
        ELSE { (9 * cur.speed + 10 * SPAWN_ACCEL_TIME - 1) \div (10 * SPAWN_ACCEL_TIME) }

\* random.random() < min(0.35, elapsed / 90) can be true only when elapsed > 0,
\* and can always be false
SpawnCounts(elapsed) == IF elapsed > 0 THEN {1, 2} ELSE {1}

\* the enemies one call of spawn_enemy may append
EnemyDraws(cur) ==
    { Enemy_new(x, off, sp, dr) :
        x \in EnemyXs, off \in EnemyOffsets, sp \in JitterSpeeds(cur), dr \in EnemyDrifts }

\* the enemies one tick may append: none unless a spawn is due, else 1 or 2
Waves(now, last, elapsed) ==
    LET cur == difficulty(elapsed)
    IN  IF ~SpawnDue(now, last, cur) THEN { <<>> }
        ELSE { <<e>> : e \in EnemyDraws(cur) }
             \cup (IF 2 \in SpawnCounts(elapsed)
                   THEN { <<e1, e2>> : e1 \in EnemyDraws(cur), e2 \in EnemyDraws(cur) }
                   ELSE {})

PowerupDraws ==
    { PowerUp_new(x, off, sp) : x \in PowerupXs, off \in PowerupOffsets, sp \in PowerupSpeeds }

\* ------------------------------------------------------------------ state
VARIABLES
    pc,              \* where Game.run is: "tick" (clock.tick), "events" (the event
                     \* loop, then update and draw), "exit" (after sys.exit)
    frames,          \* iterations of the loop of Game.run begun so far
    clock,           \* time.perf_counter()
    dt,              \* what clock.tick(FPS) returned for this iteration
    state,           \* Game.state
    player,          \* Game.player
    enemies,         \* Game.enemies
    powerups,        \* Game.powerups
    score,           \* Game.score, in hundredths of a point
    start_time,      \* Game.start_time
    last_spawn,      \* Game.last_spawn
    next_powerup_t,  \* Game.next_powerup_t
    game_over_time,  \* Game.game_over_time
    high_score,      \* Game.high_score
    file,            \* the record in HIGH_SCORE_FILE
    hits,            \* log: the calls of Player.hit made in this iteration, in order
    dash_call,       \* log: the last call of Player.try_dash made in this iteration
    dash_t0,         \* log: when try_dash last succeeded on the current Player
    save_call,       \* log: the call of save_high_score made in this iteration
    spawn_call       \* log: what Game.update spawned in this iteration

vars == <<pc, frames, clock, dt, state, player, enemies, powerups, score, start_time,
          last_spawn, next_powerup_t, game_over_time, high_score, file,
          hits, dash_call, dash_t0, save_call, spawn_call>>

session == <<player, enemies, powerups, score, start_time, last_spawn,
             next_powerup_t, game_over_time>>
logs == <<hits, dash_call, dash_t0, save_call, spawn_call>>

\* int(self.score)
IntScore(sc) == sc \div ScoreUnit

\* Game.reset at time now, with the draw of next_powerup_t
reset(now, delay) ==
    [player |-> Player_start,
     enemies |-> <<>>,
     powerups |-> <<>>,
     score |-> 0,
     start_time |-> now,
     last_spawn |-> 0,
     next_powerup_t |-> delay,
     game_over_time |-> None]

\* Game.__init__: the menu, a reset session, the best score as loaded
Init ==
    /\ pc = "tick"
    /\ frames = 0
    /\ clock = 0
    /\ dt = 0
    /\ state = S_MENU
    /\ \E delay \in PowerupDelays :
         LET r == reset(0, delay)
         IN  /\ player = r.player
             /\ enemies = r.enemies
             /\ powerups = r.powerups
             /\ score = r.score
             /\ start_time = r.start_time
             /\ last_spawn = r.last_spawn
             /\ next_powerup_t = r.next_powerup_t
             /\ game_over_time = r.game_over_time
    /\ file \in InitFiles
    /\ high_score = load_high_score(file)
    /\ hits = <<>>
    /\ dash_call = <<>>
    /\ dash_t0 = None
    /\ save_call = <<>>
    /\ spawn_call = <<>>

\* ------------------------------------------------------------------ collisions
\* Game.game_over on the game record g; io is how a write of the record ends
game_over(g, now, io) ==
    LET final_score == IntScore(g.score)
        g1 == [g EXCEPT !.state = S_GAMEOVER, !.game_over_time = now]
    IN  IF final_score > g.high_score
        THEN [g1 EXCEPT !.high_score = final_score,
                        !.file = save_high_score(g.file, final_score, io),
                        !.save_call = <<[outcome |-> io, before |-> g.file,
                                         value |-> final_score]>>]
        ELSE g1

\* the first loop of Game.handle_collisions, from the i-th enemy of the copy snap
RECURSIVE EnemyPass(_, _, _, _, _)
EnemyPass(g, snap, i, now, io) ==
    IF i > Len(snap) THEN g
    ELSE
      LET e == snap[i]
          p == g.player
      IN  IF ~colliderect(p.x, p.y, PLAYER_SIZE, e.x, e.y, ENEMY_SIZE)
          THEN EnemyPass(g, snap, i + 1, now, io)
          ELSE
            LET h == Player_hit(p, now)
                g1 == [g EXCEPT !.player = h.player]
                g2 == IF h.lethal THEN game_over(g1, now, io)
                      ELSE [g1 EXCEPT !.enemies = remove(@, e)]
                call == [now |-> now, enemy |-> e, before |-> p, lethal |-> h.lethal,
                         after |-> h.player,
                         removed |-> Len(g2.enemies) < Len(g1.enemies)]
            IN  EnemyPass([g2 EXCEPT !.hits = Append(@, call)], snap, i + 1, now, io)

\* the second loop of Game.handle_collisions
RECURSIVE PowerupPass(_, _, _)
PowerupPass(g, snap, i) ==
    IF i > Len(snap) THEN g
    ELSE
      LET q == snap[i]
          p == g.player
      IN  IF ~colliderect(p.x, p.y, PLAYER_SIZE, q.x, q.y, POWERUP_SIZE)
          THEN PowerupPass(g, snap, i + 1)
          ELSE
            LET g1 == IF q.kind = "shield"
                      THEN [g EXCEPT !.player.has_shield = TRUE] ELSE g
            IN  PowerupPass([g1 EXCEPT !.powerups = remove(@, q)], snap, i + 1)

\* Game.handle_collisions with its two loops in the other order
handle_collisions_pickups_first(g, now, io) ==
    LET g1 == PowerupPass(g, g.powerups, 1)
    IN  EnemyPass(g1, g1.enemies, 1, now, io)

handle_collisions(g, now, io) ==
    LET g1 == EnemyPass(g, g.enemies, 1, now, io)
    IN  PowerupPass(g1, g1.powerups, 1)

\* ------------------------------------------------------------------ the loop of Game.run
\* dt = self.clock.tick(FPS) / 1000.0
ClockTick(d) ==
    /\ pc = "tick"
    /\ frames < MaxFrames
    /\ pc' = "events"
    /\ frames' = frames + 1
    /\ clock' = clock + d
    /\ dt' = d
    /\ hits' = <<>>
    /\ dash_call' = <<>>
    /\ save_call' = <<>>
    /\ spawn_call' = <<>>
    /\ UNCHANGED <<state, session, high_score, file, dash_t0>>

\* pygame.quit(); sys.exit(): the process is gone, the record on disk stays
Exit ==
    /\ pc' = "exit"
    /\ frames' = 0
    /\ clock' = 0
    /\ dt' = 0
    /\ player' = Player_start
    /\ enemies' = <<>>
    /\ powerups' = <<>>
    /\ score' = 0
    /\ start_time' = 0
    /\ last_spawn' = 0
    /\ next_powerup_t' = 0
    /\ game_over_time' = None
    /\ high_score' = 0
    /\ hits' = <<>>
    /\ dash_call' = <<>>
    /\ dash_t0' = None
    /\ save_call' = <<>>
    /\ spawn_call' = <<>>
    /\ UNCHANGED <<state, file>>

\* pygame.QUIT
QuitEvent ==
    /\ pc = "events"
    /\ Exit

\* the key handling with K_SPACE also taken while paused
KeyEffect_dash_when_paused(st, k) ==
    CASE st = S_MENU ->
           IF k \in {"K_RETURN", "K_KP_ENTER"} THEN "start"
           ELSE IF k \in {"K_ESCAPE", "K_q"} THEN "exit" ELSE "ignore"
      [] st = S_PLAY ->
           IF k \in {"K_p", "K_ESCAPE"} THEN "pause"
           ELSE IF k = "K_SPACE" THEN "dash" ELSE "ignore"
      [] st = S_PAUSE ->
           IF k \in {"K_p", "K_ESCAPE"} THEN "resume"
           ELSE IF k \in {"K_q"} THEN "exit"
           ELSE IF k = "K_SPACE" THEN "dash" ELSE "ignore"
      [] st = S_GAMEOVER ->
           IF k \in {"K_r"} THEN "start"
           ELSE IF k \in {"K_q", "K_ESCAPE"} THEN "exit" ELSE "ignore"

\* the key handling with K_p also taken in the menu
KeyEffect_pause_in_menu(st, k) ==
    CASE st = S_MENU ->
           IF k \in {"K_RETURN", "K_KP_ENTER"} THEN "start"
           ELSE IF k \in {"K_ESCAPE", "K_q"} THEN "exit"
           ELSE IF k = "K_p" THEN "pause" ELSE "ignore"
      [] st = S_PLAY ->
           IF k \in {"K_p", "K_ESCAPE"} THEN "pause"
           ELSE IF k = "K_SPACE" THEN "dash" ELSE "ignore"
      [] st = S_PAUSE ->
           IF k \in {"K_p", "K_ESCAPE"} THEN "resume"
           ELSE IF k \in {"K_q"} THEN "exit" ELSE "ignore"
      [] st = S_GAMEOVER ->
           IF k \in {"K_r"} THEN "start"
           ELSE IF k \in {"K_q", "K_ESCAPE"} THEN "exit" ELSE "ignore"

\* what a KEYDOWN of key k does in state st: "start" (state = S_PLAY and reset),
\* "pause", "resume", "dash", "exit" or "ignore"
KeyEffect(st, k) ==
    CASE st = S_MENU ->
           IF k \in {"K_RETURN", "K_KP_ENTER"} THEN "start"
           ELSE IF k \in {"K_ESCAPE", "K_q"} THEN "exit" ELSE "ignore"
      [] st = S_PLAY ->
           IF k \in {"K_p", "K_ESCAPE"} THEN "pause"
           ELSE IF k = "K_SPACE" THEN "dash" ELSE "ignore"
      [] st = S_PAUSE ->
           IF k \in {"K_p", "K_ESCAPE"} THEN "resume"
           ELSE IF k \in {"K_q"} THEN "exit" ELSE "ignore"
      [] st = S_GAMEOVER ->
           IF k \in {"K_r"} THEN "start"
           ELSE IF k \in {"K_q", "K_ESCAPE"} THEN "exit" ELSE "ignore"

\* the KEYDOWN events that start or restart a session: state = S_PLAY; reset()
StartKey(k, delay) ==
    LET r == reset(clock, delay)
    IN
    /\ pc = "events"
    /\ KeyEffect(state, k) = "start"
    /\ state' = S_PLAY
    /\ player' = r.player
    /\ enemies' = r.enemies
    /\ powerups' = r.powerups
    /\ score' = r.score
    /\ start_time' = r.start_time
    /\ last_spawn' = r.last_spawn
    /\ next_powerup_t' = r.next_powerup_t
    /\ game_over_time' = r.game_over_time
    /\ dash_t0' = None
    /\ UNCHANGED <<pc, frames, clock, dt, high_score, file, hits, dash_call, save_call,
                   spawn_call>>

\* the KEYDOWN events that pause and resume
PauseKey(k) ==
    /\ pc = "events"
    /\ KeyEffect(state, k) \in {"pause", "resume"}
    /\ state' = IF KeyEffect(state, k) = "pause" THEN S_PAUSE ELSE S_PLAY
    /\ UNCHANGED <<pc, frames, clock, dt, session, high_score, file, logs>>

\* K_SPACE while playing: self.player.try_dash(time.perf_counter())
DashKey(k) ==
    LET d == Player_try_dash(player, clock)
    IN
    /\ pc = "events"
    /\ KeyEffect(state, k) = "dash"
    /\ player' = d.player
    /\ dash_call' = <<[src |-> "keydown", now |-> clock, ok |-> d.ok,
                       before |-> player, after |-> d.player, t0 |-> dash_t0]>>
    /\ dash_t0' = IF d.ok THEN clock ELSE dash_t0
    /\ UNCHANGED <<pc, frames, clock, dt, state, enemies, powerups, score, start_time,
                   last_spawn, next_powerup_t, game_over_time, high_score, file,
                   hits, save_call, spawn_call>>

\* the KEYDOWN events that quit
QuitKey(k) ==
    /\ pc = "events"
    /\ KeyEffect(state, k) = "exit"
    /\ Exit

\* every other KEYDOWN event
OtherKey(k) ==
    /\ pc = "events"
    /\ KeyEffect(state, k) = "ignore"
    /\ UNCHANGED vars

\* the part of Game.update(dt) before the score: the game record after the moves,
\* the spawns and the collisions, for the keys held, the enemies spawned (wave),
\* the power-up drawn and how a write of the record ends
Tick(held, wave, pdraw, io) ==
    LET now == clock
        p1 == Player_update(player, dt, held, now)
        dashing == held \cap {"K_SPACE", "K_LCTRL"} # {}
        d == Player_try_dash(p1, now)
        elapsed == now - start_time
        pdue == elapsed >= next_powerup_t
        spawned == enemies \o wave
        dropped == IF pdue THEN Append(powerups, pdraw) ELSE powerups
        moved_e == [i \in 1..Len(spawned) |-> Enemy_update(spawned[i], dt)]
        moved_p == [i \in 1..Len(dropped) |-> PowerUp_update(dropped[i], dt)]
    IN  handle_collisions(
            [player |-> IF dashing THEN d.player ELSE p1,
             enemies |-> SelectSeq(moved_e, Enemy_alive),
             powerups |-> SelectSeq(moved_p, PowerUp_alive),
             state |-> state,
             score |-> score,
             game_over_time |-> game_over_time,
             high_score |-> high_score,
             file |-> file,
             hits |-> <<>>,
             save_call |-> save_call,
             dash_call |-> IF dashing
                           THEN <<[src |-> "held", now |-> now, ok |-> d.ok,
                                   before |-> p1, after |-> d.player,
                                   t0 |-> dash_t0]>>
                           ELSE dash_call,
             dash_t0 |-> IF dashing /\ d.ok THEN now ELSE dash_t0],
            now, io)

\* the score without the bonus for the enemies beyond four
ScoreAt_no_bonus(elapsed, n) == elapsed

\* the score with the bonus counted from the fourth enemy
ScoreAt_bonus_from_3(elapsed, n) == elapsed + ScoreUnit * Max(0, n - 3)

\* self.score = elapsed * 10 + max(0, len(self.enemies) - 4), in hundredths
ScoreAt(elapsed, n) == elapsed + ScoreUnit * Max(0, n - 4)

\* Game.update(dt) when state == S_PLAY (Game.run, line 444)
Update(held, wave, pdraw, delay, io) ==
    /\ pc = "events"
    /\ state = S_PLAY
    /\ wave \in Waves(clock, last_spawn, clock - start_time)
    /\ \E g \in { Tick(held, wave, pdraw, io) } :
         /\ player' = g.player
         /\ enemies' = g.enemies
         /\ powerups' = g.powerups
         /\ state' = g.state
         /\ game_over_time' = g.game_over_time
         /\ high_score' = g.high_score
         /\ file' = g.file
         /\ hits' = g.hits
         /\ save_call' = g.save_call
         /\ dash_call' = g.dash_call
         /\ dash_t0' = g.dash_t0
         /\ score' = ScoreAt(clock - start_time, Len(g.enemies))
    /\ pc' = "tick"
    /\ spawn_call' = <<[now |-> clock, last |-> last_spawn, wave |-> wave,
                        drop |-> IF clock - start_time >= next_powerup_t
                                 THEN <<pdraw>> ELSE <<>>]>>
    /\ last_spawn' = IF wave # <<>> THEN clock ELSE last_spawn
    /\ next_powerup_t' = IF clock - start_time >= next_powerup_t
                         THEN (clock - start_time) + delay ELSE next_powerup_t
    /\ UNCHANGED <<frames, clock, dt, start_time>>

\* the iteration of Game.run when state != S_PLAY: no update, only draw
SkipUpdate ==
    /\ pc = "events"
    /\ state # S_PLAY
    /\ pc' = "tick"
    /\ UNCHANGED <<frames, clock, dt, state, session, high_score, file, logs>>

Next ==
    \/ \E d \in DtSet : ClockTick(d)
    \/ QuitEvent
    \/ \E k \in Keys, delay \in PowerupDelays : StartKey(k, delay)
    \/ \E k \in Keys : PauseKey(k)
    \/ \E k \in Keys : DashKey(k)
    \/ \E k \in Keys : QuitKey(k)
    \/ \E k \in Keys : OtherKey(k)
    \/ \E held \in HeldChoices, wave \in Waves(clock, last_spawn, clock - start_time),
          pdraw \in PowerupDraws, delay \in PowerupDelays, io \in SaveOutcomes :
          Update(held, wave, pdraw, delay, io)
    \/ SkipUpdate

Spec == Init /\ [][Next]_vars

\* ------------------------------------------------------------------ the loop, six seconds into a session
\* Game.run taken up in the middle of a session: the state at the end of the
\* 353rd iteration of a run in which each iteration took 17 ms, RETURN was
\* pressed in the first, no key was held since, the record held 15, and every
\* enemy was drawn at x = 100 with no offset and no drift, one per spawn, with
\* the speed JitterSpeeds gives.  The first power-up falls due in the next
\* iteration.
LateEnemies ==
    << [x |-> 100, y |-> 410, speed |-> 189, drift |-> 0],
       [x |-> 100, y |-> 260, speed |-> 189, drift |-> 0],
       [x |-> 100, y |-> 110, speed |-> 192, drift |-> 0] >>

InitLate ==
    /\ pc = "tick"
    /\ frames = 0
    /\ clock = 353 * 17
    /\ dt = 17
    /\ state = S_PLAY
    /\ player = Player_start
    /\ enemies = LateEnemies
    /\ powerups = <<>>
    /\ score = ScoreAt(352 * 17, Len(LateEnemies))
    /\ start_time = 17
    /\ last_spawn = 308 * 17
    /\ next_powerup_t \in PowerupDelays
    /\ game_over_time = None
    /\ file = Stored(15)
    /\ high_score = load_high_score(file)
    /\ hits = <<>>
    /\ dash_call = <<>>
    /\ dash_t0 = None
    /\ save_call = <<>>
    /\ spawn_call = <<>>

SpecLate == InitLate /\ [][Next]_vars

\* ------------------------------------------------------------------ one Player, called directly
\* Player.hit, Player.try_dash and the shield pickup of handle_collisions applied
\* to one Player object at non-decreasing times; hits holds the whole sequence.
WaitSet == {17, 800, 1200}

InitPlayer ==
    /\ pc = "unit"
    /\ frames = 0
    /\ clock = 0
    /\ dt = 0
    /\ state = S_PLAY
    /\ player = Player_start
    /\ enemies = <<>>
    /\ powerups = <<>>
    /\ score = 0
    /\ start_time = 0
    /\ last_spawn = 0
    /\ next_powerup_t = 0
    /\ game_over_time = None
    /\ high_score = 0
    /\ file = Absent
    /\ hits = <<>>
    /\ dash_call = <<>>
    /\ dash_t0 = None
    /\ save_call = <<>>
    /\ spawn_call = <<>>

UnitStep(op, result, after) ==
    /\ pc = "unit"
    /\ Len(hits) < MaxCalls
    /\ player' = after
    /\ hits' = Append(hits, [op |-> op, now |-> clock, before |-> player,
                             result |-> result, after |-> after])
    /\ UNCHANGED <<pc, frames, dt, state, enemies, powerups, score, start_time,
                   last_spawn, next_powerup_t, game_over_time, high_score, file,
                   dash_call, dash_t0, save_call, spawn_call>>

\* self.player.hit(now)
CallHit ==
    /\ UnitStep("hit", Player_hit(player, clock).lethal, Player_hit(player, clock).player)
    /\ clock' = clock

\* self.player.try_dash(now)
CallTryDash ==
    /\ UnitStep("dash", Player_try_dash(player, clock).ok,
                Player_try_dash(player, clock).player)
    /\ clock' = clock

\* self.player.has_shield = True (handle_collisions, line 290)
Pickup ==
    /\ UnitStep("pickup", TRUE, [player EXCEPT !.has_shield = TRUE])
    /\ clock' = clock

\* time passes between two calls
Elapse(d) ==
    /\ UnitStep("wait", TRUE, player)
    /\ clock' = clock + d

NextPlayer ==
    \/ CallHit
    \/ CallTryDash
    \/ Pickup
    \/ \E d \in WaitSet : Elapse(d)

SpecPlayer == InitPlayer /\ [][NextPlayer]_vars

\* ------------------------------------------------------------------ Player.update, called directly
\* Player.update applied to one Player, for the movement keys held and the tick
\* durations below, the Player dashing or not; hits holds the last call.
MoveKeys ==
    { {}, {"K_LEFT"}, {"K_d"}, {"K_UP"}, {"K_s"}, {"K_a", "K_RIGHT"},
      {"K_LEFT", "K_UP"}, {"K_d", "K_s"}, {"K_LEFT", "K_DOWN"}, {"K_RIGHT", "K_w"} }

MoveDts == {17, 1000}

InitMove ==
    /\ pc = "move"
    /\ frames = 0
    /\ clock = 0
    /\ dt = 0
    /\ state = S_PLAY
    /\ player \in {Player_start, Player_try_dash(Player_start, 0).player}
    /\ enemies = <<>>
    /\ powerups = <<>>
    /\ score = 0
    /\ start_time = 0
    /\ last_spawn = 0
    /\ next_powerup_t = 0
    /\ game_over_time = None
    /\ high_score = 0
    /\ file = Absent
    /\ hits = <<>>
    /\ dash_call = <<>>
    /\ dash_t0 = None
    /\ save_call = <<>>
    /\ spawn_call = <<>>

\* dt = clock.tick(FPS) / 1000.0; self.player.update(dt, keys, now)
Move(keys, d) ==
    /\ pc = "move"
    /\ frames < MaxMoves
    /\ frames' = frames + 1
    /\ clock' = clock + d
    /\ dt' = d
    /\ player' = Player_update(player, d, keys, clock + d)
    /\ hits' = <<[op |-> "update", now |-> clock + d, ms |-> d, keys |-> keys,
                  before |-> player,
                  after |-> Player_update(player, d, keys, clock + d)]>>
    /\ UNCHANGED <<pc, state, enemies, powerups, score, start_time, last_spawn,
                   next_powerup_t, game_over_time, high_score, file,
                   dash_call, dash_t0, save_call, spawn_call>>

NextMove == \E keys \in MoveKeys, d \in MoveDts : Move(keys, d)

SpecMove == InitMove /\ [][NextMove]_vars

\* ------------------------------------------------------------------ Enemy.update, called directly
\* One Enemy updated tick after tick for one second, as line 330 of Game.update
\* does: clock is the sum of the dt so far, hits holds the last call.
\* Enemy.__init__: randint(0, WIDTH - size) at both ends and in the middle,
\* uniform(-60, 60), and a speed that enemy_speed * uniform(0.9, 1.15) gives at
\* the start of a session
TickDts == {16, 17, 500}
DriftXs == {0, 466, WIDTH - ENEMY_SIZE}
Drifts == {-59, 0, 59}
FallSpeeds == {200}

InitEnemy ==
    /\ pc = "enemy"
    /\ frames = 0
    /\ clock = 0
    /\ dt = 0
    /\ state = S_PLAY
    /\ player = Player_start
    /\ \E x \in DriftXs, dr \in Drifts, sp \in FallSpeeds :
          enemies = <<Enemy_new(x, 0, sp, dr)>>
    /\ powerups = <<>>
    /\ score = 0
    /\ start_time = 0
    /\ last_spawn = 0
    /\ next_powerup_t = 0
    /\ game_over_time = None
    /\ high_score = 0
    /\ file = Absent
    /\ hits = <<>>
    /\ dash_call = <<>>
    /\ dash_t0 = None
    /\ save_call = <<>>
    /\ spawn_call = <<>>

\* self.enemies = [e for e in self.enemies if e.update(dt)]
EnemyTick(d) ==
    LET moved == [i \in 1..Len(enemies) |-> Enemy_update(enemies[i], d)]
    IN
    /\ pc = "enemy"
    /\ clock + d <= MsPerSec
    /\ clock' = clock + d
    /\ dt' = d
    /\ enemies' = SelectSeq(moved, Enemy_alive)
    /\ hits' = [i \in 1..Len(enemies) |->
                   [op |-> "enemy_update", ms |-> d, before |-> enemies[i],
                    after |-> moved[i]]]
    /\ UNCHANGED <<pc, frames, state, player, powerups, score, start_time, last_spawn,
                   next_powerup_t, game_over_time, high_score, file,
                   dash_call, dash_t0, save_call, spawn_call>>

NextEnemy == \E d \in TickDts : EnemyTick(d)

SpecEnemy == InitEnemy /\ [][NextEnemy]_vars

\* ------------------------------------------------------------------ Game.difficulty, called directly
\* Game.difficulty evaluated at pairs of session times; hits holds the last pair.
\* The times: before the session clock starts, its first milliseconds, the
\* middle of the curve, around SPAWN_ACCEL_TIME and well past it.
CurveTimes ==
    {-1000, -1, 0, 1, 17, 1000, 29999, 30000, SPAWN_ACCEL_TIME - 1, SPAWN_ACCEL_TIME,
     SPAWN_ACCEL_TIME + 1, 2 * SPAWN_ACCEL_TIME}

InitCurve ==
    /\ pc = "curve"
    /\ frames = 0
    /\ clock \in CurveTimes
    /\ dt = 0
    /\ state = S_PLAY
    /\ player = Player_start
    /\ enemies = <<>>
    /\ powerups = <<>>
    /\ score = 0
    /\ start_time = 0
    /\ last_spawn = 0
    /\ next_powerup_t = 0
    /\ game_over_time = None
    /\ high_score = 0
    /\ file = Absent
    /\ hits = <<>>
    /\ dash_call = <<>>
    /\ dash_t0 = None
    /\ save_call = <<>>
    /\ spawn_call = <<>>

\* spawn_interval, enemy_speed = self.difficulty(elapsed), at clock and then at t
Probe(t) ==
    /\ pc = "curve"
    /\ clock' = t
    /\ hits' = <<[op |-> "difficulty", t1 |-> clock, a |-> difficulty(clock),
                  t2 |-> t, b |-> difficulty(t)]>>
    /\ UNCHANGED <<pc, frames, dt, state, player, enemies, powerups, score, start_time,
                   last_spawn, next_powerup_t, game_over_time, high_score, file,
                   dash_call, dash_t0, save_call, spawn_call>>

NextCurve == \E t \in CurveTimes : Probe(t)

SpecCurve == InitCurve /\ [][NextCurve]_vars

\* ------------------------------------------------------------------ claims
\* C1: the session state changes only along Menu->Playing (start key),
\* Playing->Paused (pause key), Paused->Playing (resume key), Playing->GameOver
\* (a lethal hit in a tick) and GameOver->Playing (restart key); quitting ends
\* the process without changing the state.
C1_Transitions ==
    [][state' # state =>
        \/ /\ state = S_MENU /\ state' = S_PLAY
           /\ \E k \in {"K_RETURN", "K_KP_ENTER"}, delay \in PowerupDelays :
                 StartKey(k, delay)
        \/ /\ state = S_PLAY /\ state' = S_PAUSE
           /\ \E k \in {"K_p", "K_ESCAPE"} : PauseKey(k)
        \/ /\ state = S_PAUSE /\ state' = S_PLAY
           /\ \E k \in {"K_p", "K_ESCAPE"} : PauseKey(k)
        \/ /\ state = S_PLAY /\ state' = S_GAMEOVER
           /\ pc = "events" /\ pc' = "tick"
           /\ \E i \in DOMAIN hits' : hits'[i].lethal
        \/ /\ state = S_GAMEOVER /\ state' = S_PLAY
           /\ \E delay \in PowerupDelays : StartKey("K_r", delay)
    ]_vars

\* a session paused after an earlier session ended with a new best score
C1_Witness ==
    /\ state = S_PAUSE
    /\ file = Absent
    /\ high_score > 0

\* C2: an obstacle is removed by collision resolution exactly when its
\* collision consumes the shield; one hit during invincibility stays.
C2_RemovedOnlyOnShield ==
    \A i \in DOMAIN hits :
        hits[i].removed <=> (hits[i].before.has_shield /\ ~hits[i].after.has_shield)

\* C3: in every GameOver state the best score is at least the integer part of
\* the score of the session that ended.
C3_BestAtLeastFinal ==
    state = S_GAMEOVER => high_score >= IntScore(score)

\* C4: a hit at a time before invincible_until is not lethal and leaves
\* has_shield and invincible_until as they were, shield or no shield.
C4_InvincibleFirst ==
    \A i \in DOMAIN hits :
        LET c == hits[i] IN
        (c.op = "hit" /\ c.now < c.before.invincible_until) =>
            /\ c.result = FALSE
            /\ c.after.has_shield = c.before.has_shield
            /\ c.after.invincible_until = c.before.invincible_until

\* a hit during invincibility of a Player that holds a shield
C4_Witness ==
    \E i \in DOMAIN hits :
        /\ hits[i].op = "hit"
        /\ hits[i].now < hits[i].before.invincible_until
        /\ hits[i].before.has_shield
        /\ hits[i].after.has_shield

\* the i-th call is a hit that consumes the shield
Consumes(i) ==
    /\ hits[i].op = "hit"
    /\ hits[i].before.has_shield
    /\ hits[i].now >= hits[i].before.invincible_until

\* C5: a hit with a shield and no invincibility is absorbed, clears the shield
\* and sets invincible_until = now + INVINCIBLE_AFTER_HIT; every later hit before
\* that time is absorbed and changes nothing; and with no pickup or successful
\* dash in between, a hit at or after that time is lethal.
C5_ShieldOnce ==
    /\ \A i \in DOMAIN hits :
          Consumes(i) =>
              /\ hits[i].result = FALSE
              /\ ~hits[i].after.has_shield
              /\ hits[i].after.invincible_until = hits[i].now + INVINCIBLE_AFTER_HIT
    /\ \A i \in DOMAIN hits, j \in DOMAIN hits :
          (i < j /\ Consumes(i) /\ hits[j].op = "hit") =>
              /\ hits[j].now < hits[i].now + INVINCIBLE_AFTER_HIT =>
                    (hits[j].result = FALSE /\ hits[j].after = hits[j].before)
              /\ ( /\ hits[j].now >= hits[i].now + INVINCIBLE_AFTER_HIT
                   /\ \A k \in (i + 1)..(j - 1) :
                         /\ hits[k].op # "pickup"
                         /\ ~(hits[k].op = "dash" /\ hits[k].result) )
                    => hits[j].result = TRUE

\* a shield consumed, a hit absorbed within the window, a lethal hit after it
C5_Witness ==
    \E i \in DOMAIN hits, j \in DOMAIN hits, k \in DOMAIN hits :
        /\ i < j /\ j < k
        /\ Consumes(i)
        /\ hits[j].op = "hit" /\ hits[j].result = FALSE
        /\ hits[k].op = "hit" /\ hits[k].result = TRUE
        /\ hits[k].now >= hits[i].now + INVINCIBLE_AFTER_HIT

\* C6: try_dash succeeds exactly when now >= dash_cd_until; a call less than
\* DASH_COOLDOWN after the last success on this Player fails and leaves
\* dash_until, dash_cd_until (as set by that success) and invincible_until alone.
C6_DashCooldown ==
    \A i \in DOMAIN dash_call :
        LET c == dash_call[i] IN
        /\ c.ok <=> c.now >= c.before.dash_cd_until
        /\ (c.t0 # None /\ c.t0 <= c.now /\ c.now < c.t0 + DASH_COOLDOWN) =>
              /\ ~c.ok
              /\ c.after.dash_until = c.t0 + DASH_TIME
              /\ c.after.dash_cd_until = c.t0 + DASH_COOLDOWN
              /\ c.after.invincible_until = c.before.invincible_until
              /\ c.after = c.before

\* the held-key check of a tick fails during the cooldown of an earlier dash
C6_Witness ==
    \E i \in DOMAIN dash_call :
        /\ dash_call[i].src = "held"
        /\ ~dash_call[i].ok
        /\ dash_call[i].t0 # None
        /\ dash_call[i].now > dash_call[i].t0

\* the density bonus of the score
Bonus(es) == Max(0, Len(es) - 4)

\* C7 as claimed, for the ticks without a collision (every obstacle they remove
\* is culled off the field): while Playing the score never decreases from one
\* tick to the next.
C7_ScoreNeverDecreases ==
    [][(state = S_PLAY /\ state' = S_PLAY /\ pc' # "exit" /\ hits' = <<>>)
          => score' >= score]_vars

\* C7 as amended: while Playing the score never decreases by more than the drop
\* of the density bonus max(0, n - 4), so it never decreases over a tick in
\* which that bonus does not drop.
C7_ScoreDropBounded ==
    [][(state = S_PLAY /\ state' = S_PLAY /\ pc' # "exit") =>
          score' + ScoreUnit * Max(0, Bonus(enemies) - Bonus(enemies')) >= score]_vars

\* a tick has ended with more than four live obstacles
C7_Witness ==
    /\ state = S_PLAY
    /\ pc = "tick"
    /\ Len(enemies) > 4
    /\ score > ScoreUnit

\* C8: every transition into Playing from Menu or GameOver gives a fresh
\* session: score 0, no obstacles, no power-ups, no shield, timers cleared, the
\* avatar centred at the bottom inside the field, the best score untouched.
C8_FreshSession ==
    [][(state \in {S_MENU, S_GAMEOVER} /\ state' = S_PLAY) =>
          /\ score' = 0
          /\ enemies' = <<>>
          /\ powerups' = <<>>
          /\ ~player'.has_shield
          /\ player'.invincible_until = 0
          /\ player'.dash_until = 0
          /\ player'.dash_cd_until = 0
          /\ 2 * player'.x + PLAYER_SIZE = WIDTH
          /\ player'.y + PLAYER_SIZE = HEIGHT - 16
          /\ player'.x \in 0..(WIDTH - PLAYER_SIZE)
          /\ player'.y \in 0..(HEIGHT - PLAYER_SIZE)
          /\ high_score' = high_score
    ]_vars

\* a session restarted right after one that set a new best score
C8_Witness ==
    /\ state = S_PLAY
    /\ pc = "events"
    /\ start_time = clock
    /\ enemies = <<>>
    /\ file = Unreadable
    /\ high_score > 0

\* two squares meet: their projections on both axes share more than a point
Overlaps(p, e) ==
    /\ Max(p.x, e.x) < Min(p.x + PLAYER_SIZE, e.x + ENEMY_SIZE)
    /\ Max(p.y, e.y) < Min(p.y + PLAYER_SIZE, e.y + ENEMY_SIZE)

\* the hit was taken with no invincibility and no shield
Vulnerable(c) == c.now >= c.before.invincible_until /\ ~c.before.has_shield

C10_FailedWriteKeepsRecord ==
    /\ \A i \in DOMAIN save_call :
          save_call[i].outcome # "ok" =>
              /\ state = S_GAMEOVER
              /\ load_high_score(file) = load_high_score(save_call[i].before)
    /\ (frames = 0 /\ pc = "tick" /\ file.kind # "ok") => high_score = 0

\* the displacement Player.update asks for on one axis: v is the sign of the axis,
\* other the sign of the other axis
Asked(c, v, other) ==
    LET spd == IF c.now < c.before.dash_until THEN DASH_SPEED ELSE PLAYER_SPEED
    IN  IF v = 0 THEN 0
        ELSE IF other = 0 THEN v * Step(spd, c.ms)
        ELSE v * DiagStep(spd, c.ms)

\* where a coordinate lands: on the target when it is inside lo..hi, else exactly
\* on the boundary it went past
Pinned(got, target, lo, hi) ==
    /\ got \in lo..hi
    /\ target \in lo..hi => got = target
    /\ target < lo => got = lo
    /\ target > hi => got = hi

\* C11: the avatar's position is always inside 0..WIDTH-size by 0..HEIGHT-size,
\* after reset and after every Player.update; a move whose target is outside
\* that range leaves the coordinate exactly on the boundary.
C11_Clamped ==
    /\ player.x \in 0..(WIDTH - PLAYER_SIZE)
    /\ player.y \in 0..(HEIGHT - PLAYER_SIZE)
    /\ \A i \in DOMAIN hits :
          LET c == hits[i]
              vx == Axis(c.keys, {"K_a", "K_LEFT"}, {"K_d", "K_RIGHT"})
              vy == Axis(c.keys, {"K_w", "K_UP"}, {"K_s", "K_DOWN"})
          IN  /\ c.after = player
              /\ Pinned(c.after.x, c.before.x + Asked(c, vx, vy), 0, WIDTH - PLAYER_SIZE)
              /\ Pinned(c.after.y, c.before.y + Asked(c, vy, vx), 0, HEIGHT - PLAYER_SIZE)

\* a dashing move to the right and downwards that would leave the field by both
\* edges and is pinned in the corner
C11_Witness ==
    /\ pc = "move"
    /\ \E i \in DOMAIN hits :
          /\ hits[i].before.x + Asked(hits[i], 1, 1) > WIDTH - PLAYER_SIZE
          /\ hits[i].before.y + Asked(hits[i], 1, 1) > HEIGHT - PLAYER_SIZE
          /\ hits[i].keys = {"K_d", "K_s"}
    /\ player.x = WIDTH - PLAYER_SIZE
    /\ player.y = HEIGHT - PLAYER_SIZE

\* C12: an obstacle of speed 200 and drift 0 spawned at the top edge has
\* advanced by exactly 200 when the dt of its updates sum to one second,
\* however the second is split into ticks.
C12_AdvanceIndependentOfTicks ==
    (pc = "enemy" /\ clock = MsPerSec) =>
        \A i \in DOMAIN enemies :
            (enemies[i].speed = 200 /\ enemies[i].drift = 0) =>
                enemies[i].y = -ENEMY_SIZE + 200

\* C20: after every Enemy.update an obstacle whose rectangle reaches beyond the
\* left edge has drift >= 0 and one reaching beyond the right edge has
\* drift <= 0.
C20_DriftPointsInwards ==
    \A i \in DOMAIN hits :
        hits[i].op = "enemy_update" =>
            /\ hits[i].after.x < 0 => hits[i].after.drift >= 0
            /\ hits[i].after.x + ENEMY_SIZE > WIDTH => hits[i].after.drift <= 0

\* what C13 asks of one result r of difficulty at time t (r is in units of
\* 1 / SPAWN_ACCEL_TIME)
CurveAt(t, r) ==
    /\ t <= 0 => /\ r.spawn = SPAWN_BASE_INTERVAL * SPAWN_ACCEL_TIME
                 /\ r.speed = ENEMY_SPEED_BASE * SPAWN_ACCEL_TIME
    /\ t >= SPAWN_ACCEL_TIME => /\ r.spawn = SPAWN_MIN_INTERVAL * SPAWN_ACCEL_TIME
                                /\ r.speed = ENEMY_SPEED_MAX * SPAWN_ACCEL_TIME
    /\ r.spawn >= SPAWN_MIN_INTERVAL * SPAWN_ACCEL_TIME
    /\ r.spawn <= SPAWN_BASE_INTERVAL * SPAWN_ACCEL_TIME

C14_ScoreFormula ==
    [][(pc = "events" /\ pc' = "tick" /\ state = S_PLAY) =>
          /\ score' = (clock' - start_time') + ScoreUnit * Max(0, Len(enemies') - 4)
          /\ (clock > start_time /\ Len(enemies') >= Len(enemies)) => score' > score
    ]_vars

\* a tick one second after the previous one that ends with six obstacles live
C14_Witness ==
    /\ pc = "tick"
    /\ state = S_PLAY
    /\ dt = 1000
    /\ Len(enemies) = 6
    /\ score = (clock - start_time) + 2 * ScoreUnit

\* C15: obstacles are created only in a Playing tick with
\* now - last_spawn >= spawn_interval; such a tick creates 1 or 2 of them, however
\* long ago the last spawn was, and sets last_spawn = now, any other tick leaves
\* last_spawn alone; two spawning ticks are at least SPAWN_MIN_INTERVAL apart; a
\* tick creates at most 2 obstacles and 1 power-up, and nothing else creates any.
C15_SpawnPacing ==
    [][IF pc = "events" /\ pc' = "tick" /\ state = S_PLAY
       THEN LET c == spawn_call'[1]
                due == (clock - last_spawn) * SPAWN_ACCEL_TIME
                           >= difficulty(clock - start_time).spawn
            IN  /\ Len(spawn_call') = 1
                /\ due => Len(c.wave) \in {1, 2} /\ last_spawn' = clock
                /\ ~due => c.wave = <<>> /\ last_spawn' = last_spawn
                /\ c.wave # <<>> => clock - last_spawn >= SPAWN_MIN_INTERVAL
                /\ Len(c.drop) <= 1
                /\ Len(enemies') <= Len(enemies) + Len(c.wave)
                /\ Len(powerups') <= Len(powerups) + Len(c.drop)
       ELSE /\ Len(enemies') <= Len(enemies)
            /\ Len(powerups') <= Len(powerups)
    ]_vars

\* a tick that comes more than two base intervals after the last spawn of the
\* session and creates two obstacles and one power-up
C15_Witness ==
    /\ pc = "tick"
    /\ spawn_call # <<>>
    /\ spawn_call[1].last # 0
    /\ spawn_call[1].now - spawn_call[1].last >= 2 * SPAWN_BASE_INTERVAL
    /\ Len(spawn_call[1].wave) = 2
    /\ Len(spawn_call[1].drop) = 1

\* top <= HEIGHT, for an obstacle or a power-up
OnField(e) == e.y <= HEIGHT

\* the square of a power-up q meets the square of the avatar p
Touches(p, q) ==
    /\ p.x < q.x + POWERUP_SIZE /\ q.x < p.x + PLAYER_SIZE
    /\ p.y < q.y + POWERUP_SIZE /\ q.y < p.y + PLAYER_SIZE

\* how many elements of the sequence s equal e
Count(s, e) == Cardinality({ i \in DOMAIN s : s[i] = e })

\* C16: after every Playing tick every live obstacle and power-up has
\* top <= HEIGHT.  The obstacles left are those that were live or spawned, moved,
\* still with top <= HEIGHT, less one for each absorbed hit; the obstacle of a
\* lethal hit stays.  The power-ups left are those that were live or dropped,
\* moved, still with top <= HEIGHT and not touching the avatar.
C16_EntityLifetime ==
    [][(pc = "events" /\ pc' = "tick" /\ state = S_PLAY) =>
          LET c == spawn_call'[1]
              all_e == enemies \o c.wave
              all_p == powerups \o c.drop
              moved_e == [i \in DOMAIN all_e |-> Enemy_update(all_e[i], dt)]
              moved_p == [i \in DOMAIN all_p |-> PowerUp_update(all_p[i], dt)]
              absorbed(e) == Cardinality({ i \in DOMAIN hits' :
                                 hits'[i].enemy = e /\ ~hits'[i].lethal })
              NotTouching(q) == ~Touches(player', q)
          IN  \A live_e \in { SelectSeq(moved_e, OnField) },
                 live_p \in { SelectSeq(moved_p, OnField) } :
                /\ \A i \in DOMAIN enemies' : OnField(enemies'[i])
                /\ \A i \in DOMAIN powerups' : OnField(powerups'[i])
                /\ \A i \in DOMAIN live_e :
                      Count(enemies', live_e[i])
                          = Count(live_e, live_e[i]) - absorbed(live_e[i])
                /\ \A i \in DOMAIN enemies' : Count(live_e, enemies'[i]) > 0
                /\ \A i \in DOMAIN hits' :
                      hits'[i].lethal => Count(enemies', hits'[i].enemy) > 0
                /\ powerups' = SelectSeq(live_p, NotTouching)
    ]_vars

\* the first tick took a second: one of the three obstacles of the session has
\* left the field, and the obstacle spawned in the tick was absorbed by the dash
C16_Witness ==
    /\ pc = "tick"
    /\ frames = 1
    /\ dt = 1000
    /\ Len(enemies) = 2
    /\ \A i \in DOMAIN enemies : enemies[i].x = 100
    /\ Len(spawn_call[1].wave) = 1
    /\ hits # <<>>
    /\ hits[1].removed
    /\ powerups # <<>>

\* C17: time spent in Paused does not count towards the session: in every
\* Playing tick, the first after a resume included, the elapsed time of the
\* session is at most dt more than it was at the tick before (the elapsed time
\* that the score, unchanged since, still records).
C17_PauseNotCounted ==
    [][(pc = "events" /\ pc' = "tick" /\ state = S_PLAY) =>
          (clock - start_time) - (score - ScoreUnit * Bonus(enemies)) <= dt
    ]_vars

\* C18: while the state is Menu, Paused or GameOver, every tick and every key
\* event that neither changes the state nor quits leaves the avatar (position,
\* shield, dash and invincibility timers), the obstacles, the power-ups, the
\* score and the best score as they were, and makes no call of try_dash.
C18_NoSimulationOutsidePlaying ==
    [][(state \in {S_MENU, S_PAUSE, S_GAMEOVER} /\ state' = state /\ pc' # "exit") =>
          /\ UNCHANGED <<player, enemies, powerups, score, high_score>>
          /\ dash_call' \in {dash_call, <<>>}
          /\ dash_t0' = dash_t0
    ]_vars

\* an iteration of the loop has gone by in Paused, with obstacles live and the
\* dash ready
C18_Witness ==
    /\ state = S_PAUSE
    /\ pc = "tick"
    /\ spawn_call = <<>>
    /\ enemies # <<>>
    /\ score > 0
    /\ clock >= player.dash_cd_until

\* C19: the obstacle collisions of a tick are resolved before its pickups: when
\* the avatar, with no shield and no invincibility, meets an obstacle and a
\* shield power-up in the same tick, the hit is lethal and the session ends in
\* GameOver; the shield is picked up all the same, after the hit.
C19_ObstaclesBeforePickups ==
    [][(pc = "events" /\ pc' = "tick" /\ state = S_PLAY) =>
          LET c == spawn_call'[1]
              all_p == powerups \o c.drop
              moved_p == [i \in DOMAIN all_p |-> PowerUp_update(all_p[i], dt)]
              live_p == SelectSeq(moved_p, OnField)
          IN  (/\ ~player.has_shield
               /\ hits' # <<>>
               /\ clock >= hits'[1].before.invincible_until
               /\ \E i \in DOMAIN live_p :
                     live_p[i].kind = "shield" /\ Touches(player', live_p[i]))
              => /\ hits'[1].lethal
                 /\ state' = S_GAMEOVER
                 /\ ~hits'[1].after.has_shield
                 /\ player'.has_shield
                 /\ \A i \in DOMAIN powerups' : ~Touches(player', powerups'[i])
    ]_vars

\* a session ended by a hit taken without a shield, in the tick in which the
\* avatar picked a shield up
C19_Witness ==
    /\ state = S_GAMEOVER
    /\ pc = "tick"
    /\ game_over_time = clock
    /\ hits # <<>>
    /\ hits[1].lethal
    /\ ~hits[1].before.has_shield
    /\ player.has_shield
    /\ powerups = <<>>

====
